---- MODULE Spec2Model ----
(***************************************************************************)
(* Model of the design-thinking-coach frontend: the App component's state  *)
(* (src/README.md, from line 412 on, holds App.tsx), the chat and config   *)
(* API (src/unnamed/part_003) and the progress tracker.                    *)
(*                                                                         *)
(* Texts are sequences of one-character strings, so that toLowerCase,      *)
(* trim and includes are computed and not assumed.  Fixed texts of the     *)
(* program (notices, error texts) are one-token sequences.                 *)
(*                                                                         *)
(* An async handler is one action up to its await and one action per way   *)
(* its request settles.  The continuation after the await reads the state  *)
(* values of the render that created the handler, so a request in flight   *)
(* carries the frameworkSteps and frameworkProgress it captured.           *)
(***************************************************************************)
EXTENDS Integers, Sequences, FiniteSets, Bags, TLC

VARIABLES
    messages,           \* useState<Message[]>([])
    newMessage,         \* useState('')
    loading,            \* useState(false)
    showExport,         \* useState(false)
    frameworkLoading,   \* useState(true)
    frameworkProgress,  \* useState<Record<string, boolean>>({})
    frameworkSteps,     \* useState<FrameworkStage[]>([])
    pending,            \* chat requests awaiting their response, with what the handler captured
    configRequest,      \* the /api/config request in flight: "none", "init" or "reload"
    arg,                \* an argument triple of updateFrameworkProgress
    ret,                \* the maps returned by its successive applications to arg
    localStorage,       \* localStorage's item 'dt-session-id'; <<>> when there is none
    timers              \* setTimeout(handleSendMessage, 0) calls not yet run, with what
                        \* the handler captured

vars == <<messages, newMessage, loading, showExport, frameworkLoading,
          frameworkProgress, frameworkSteps, pending, configRequest, arg, ret, localStorage, timers>>

appVars == <<messages, newMessage, loading, showExport, frameworkLoading,
             frameworkProgress, frameworkSteps, pending, configRequest, localStorage, timers>>

----------------------------------------------------------------------------
(* Bounds *)

\* messages the history may hold (replies still owed are counted in)
MaxMessages == 4
\* chat requests in flight at once
MaxPending == 2
\* timers set and not yet run
MaxTimers == 1
\* successive applications of updateFrameworkProgress to one argument triple
MaxApply == 2
\* length of the assistant texts the tracker is applied to
MaxTextLen == 2
\* messages of a history the export document is generated from
MaxHistory == 3

----------------------------------------------------------------------------
(* Strings *)

\* String.prototype.toLowerCase, one character
LowerChar(c) ==
    CASE c = "P" -> "p"
      [] c = "Q" -> "q"
      [] c = "I" -> "i"
      [] c = "A" -> "a"
      [] c = "B" -> "b"
      [] OTHER -> c

toLowerCase(s) == [i \in 1..Len(s) |-> LowerChar(s[i])]

\* String.prototype.includes: sub occurs in s as a contiguous run; "" occurs in every s
includes(s, sub) ==
    \E i \in 0..(Len(s) - Len(sub)) : SubSeq(s, i + 1, i + Len(sub)) = sub

\* String.prototype.trim
trim(s) ==
    LET ink == {i \in 1..Len(s) : s[i] # " "}
    IN  IF ink = {} THEN <<>>
        ELSE SubSeq(s, CHOOSE i \in ink : \A j \in ink : i <= j,
                       CHOOSE i \in ink : \A j \in ink : j <= i)

\* a JS value used as a condition: '' and undefined are falsy
Present(rec, f) == f \in DOMAIN rec /\ rec[f] # <<>>

----------------------------------------------------------------------------
(* Backend answers.  The backend is outside the repository: every answer   *)
(* that the fetch calls can observe is an input.                           *)

\* stage objects as /api/config delivers them; icon and keywords may be missing
RawA == [key |-> <<"a">>, title |-> <<"A">>, description |-> <<"dA">>, icon |-> <<"iA">>,
         keywords |-> << <<"p">> >>]
RawB == [key |-> <<"b">>, title |-> <<"B">>, description |-> <<"dB">>,
         keywords |-> << <<"Q">>, <<"z", "z">> >>]
RawANoKeywords == [key |-> <<"a">>, title |-> <<"A">>, description |-> <<"dA">>, icon |-> <<"iA">>]
RawAEmptyKeyword == [key |-> <<"a">>, title |-> <<"A2">>, description |-> <<"dA2">>,
                     icon |-> <<"iA">>, keywords |-> << <<>> >>]

\* two stages that share the key c, which no stage of the other list has
RawC == [key |-> <<"c">>, title |-> <<"C">>, description |-> <<"dC">>, icon |-> <<"iC">>,
         keywords |-> << <<"p">> >>]
RawCNoKeywords == [key |-> <<"c">>, title |-> <<"C">>, description |-> <<"dC">>,
                   icon |-> <<"iC">>]

RawStageLists ==
    { <<RawA, RawB>>,
      <<RawC, RawCNoKeywords>> }

\* what fetch(`${backendURL}/api/config`) can give
ConfigOutcomes ==
    {[fetch |-> "rejected"]}
    \cup {[fetch |-> "response", ok |-> FALSE, status |-> <<"500">>]}
    \cup {[fetch |-> "response", ok |-> TRUE, status |-> <<"200">>, data |-> [other |-> <<>>]]}
    \cup {[fetch |-> "response", ok |-> TRUE, status |-> <<"200">>,
           data |-> [config |-> [framework |-> [stages |-> l]]]] : l \in RawStageLists}

\* ChatResponse bodies: { message?, reply? }
ChatBodies ==
    { [message |-> <<"Q", "p">>],
      [message |-> <<>>, reply |-> <<"q">>],
      [reply |-> <<>>] }

\* what fetch(`${backendURL}/api/chat`, ...) can give
ChatOutcomes ==
    {[fetch |-> "rejected"]}
    \cup {[fetch |-> "response", ok |-> FALSE, status |-> <<"404">>]}
    \cup {[fetch |-> "response", ok |-> TRUE, status |-> <<"200">>, body |-> b] : b \in ChatBodies}

\* what the user can type into the textarea
InputTexts == { <<" ">>, <<" ", "p", " ">> }

----------------------------------------------------------------------------
(* chatAPI *)

Threw(msg) == [threw |-> TRUE, error |-> msg]
Returned(v) == [threw |-> FALSE, value |-> v]

\* chatAPI.sendMessage: throws on a rejected fetch and on !response.ok
chatAPI_sendMessage(outcome) ==
    IF outcome.fetch = "rejected" THEN Threw(<<"Failed to fetch">>)
    ELSE IF ~outcome.ok THEN Threw(<<"HTTP error! status: ">> \o outcome.status)
    ELSE Returned(outcome.body)

\* stage => ({key, title, description, icon: stage.icon || default, keywords: stage.keywords || []})
MapStage(stage) ==
    [key |-> stage.key, title |-> stage.title, description |-> stage.description,
     icon |-> IF Present(stage, "icon") THEN stage.icon ELSE <<"pin">>,
     keywords |-> IF "keywords" \in DOMAIN stage THEN stage.keywords ELSE <<>>]

\* chatAPI.loadFrameworkStages
chatAPI_loadFrameworkStages(outcome) ==
    IF outcome.fetch = "rejected" THEN Threw(<<"Failed to fetch">>)
    ELSE IF ~outcome.ok THEN Threw(<<"API config endpoint failed: ">> \o outcome.status)
    ELSE IF "config" \in DOMAIN outcome.data
            /\ "framework" \in DOMAIN outcome.data.config
            /\ "stages" \in DOMAIN outcome.data.config.framework
         THEN Returned([i \in 1..Len(outcome.data.config.framework.stages) |->
                            MapStage(outcome.data.config.framework.stages[i])])
         ELSE Threw(<<"Framework stages not found in config">>)

\* the stage lists the app can hold
StageLists ==
    {chatAPI_loadFrameworkStages(o).value :
        o \in {x \in ConfigOutcomes : ~chatAPI_loadFrameworkStages(x).threw}}

----------------------------------------------------------------------------
(* sessionUtils *)

\* localStorage.getItem gives null when there is no item
NoId == <<>>

\* what Date.now() can give
Times == {1, 2}

\* getSessionId always making a new id, stored or not
getSessionIdFresh(stored, now) ==
    [sessionId |-> <<"session-", now>>, stored |-> <<"session-", now>>]

\* sessionUtils.getSessionId: the id it returns and the item it leaves in localStorage
getSessionId(stored, now) ==
    IF stored = NoId
    THEN [sessionId |-> <<"session-", now>>, stored |-> <<"session-", now>>]
    ELSE [sessionId |-> stored, stored |-> stored]

----------------------------------------------------------------------------
(* Progress tracker *)

\* obj[key] = value on a copy
Put(obj, key, value) == [k \in DOMAIN obj \cup {key} |-> IF k = key THEN value ELSE obj[k]]

\* obj[key] read as a condition: a missing entry is undefined, which is falsy
Truthy(obj, key) == key \in DOMAIN obj /\ obj[key]

\* keywords.some(keyword => lower.includes(keyword.toLowerCase()))
found(lower, stage) ==
    \E n \in 1..Len(stage.keywords) : includes(lower, toLowerCase(stage.keywords[n]))

RECURSIVE forEachStage(_, _, _, _)
forEachStage(lower, steps, i, newProgress) ==
    IF i > Len(steps) THEN newProgress
    ELSE forEachStage(lower, steps, i + 1,
                      IF found(lower, steps[i])
                      THEN Put(newProgress, steps[i].key, TRUE)
                      ELSE newProgress)

\* updateFrameworkProgress writing the outcome of the search instead of only marking
RECURSIVE forEachStageAssign(_, _, _, _)
forEachStageAssign(lower, steps, i, newProgress) ==
    IF i > Len(steps) THEN newProgress
    ELSE forEachStageAssign(lower, steps, i + 1,
                            Put(newProgress, steps[i].key, found(lower, steps[i])))

updateFrameworkProgressAssign(content, steps, currentProgress) ==
    forEachStageAssign(toLowerCase(content), steps, 1, currentProgress)

\* updateFrameworkProgress leaving the loop at the first stage it newly marks
RECURSIVE forEachStageFirst(_, _, _, _)
forEachStageFirst(lower, steps, i, newProgress) ==
    IF i > Len(steps) THEN newProgress
    ELSE IF found(lower, steps[i]) /\ ~Truthy(newProgress, steps[i].key)
    THEN Put(newProgress, steps[i].key, TRUE)
    ELSE forEachStageFirst(lower, steps, i + 1, newProgress)

updateFrameworkProgressFirst(content, steps, currentProgress) ==
    forEachStageFirst(toLowerCase(content), steps, 1, currentProgress)

updateFrameworkProgress(content, steps, currentProgress) ==
    forEachStage(toLowerCase(content), steps, 1, currentProgress)

\* the quotient num / den cut off instead of rounded
RoundDown(num, den) == num \div den

\* Math.round of the quotient num / den, den > 0, num >= 0
Round(num, den) == (2 * num + den) \div (2 * den)

\* App's computed progressPercentage
Percentage(steps, progress) ==
    IF Len(steps) > 0
    THEN Round(Cardinality({k \in DOMAIN progress : progress[k] = TRUE}) * 100, Len(steps))
    ELSE 0

progressPercentage == Percentage(frameworkSteps, frameworkProgress)

\* stages.forEach(step => { initialProgress[step.key] = false })
RECURSIVE AllFalse(_, _, _)
AllFalse(steps, i, acc) ==
    IF i > Len(steps) THEN acc ELSE AllFalse(steps, i + 1, Put(acc, steps[i].key, FALSE))

----------------------------------------------------------------------------
(* exportUtils.generateStructuredOutput.  The document is the sequence of  *)
(* its lines, each tagged with the statement that emits it.  The date line *)
(* (new Date().toLocaleDateString) carries no value.                       *)

\* frameworkSteps.filter(step => frameworkProgress[step.key])
completedSteps(steps, progress) ==
    SelectSeq(steps, LAMBDA step : Truthy(progress, step.key))

\* relevantMessages filtering on the content alone, whoever wrote the message
relevantMessagesAnyType(msgs, step) ==
    SelectSeq(msgs, LAMBDA msg : includes(toLowerCase(msg.content), toLowerCase(step.key)))

\* messages.filter(msg => msg.type === 'assistant' &&
\*                        msg.content.toLowerCase().includes(step.key.toLowerCase()))
relevantMessages(msgs, step) ==
    SelectSeq(msgs, LAMBDA msg : /\ msg.type = "assistant"
                                 /\ includes(toLowerCase(msg.content), toLowerCase(step.key)))

\* the body of completedSteps.forEach
StepLines(msgs, step) ==
    << [line |-> "header", icon |-> step.icon, title |-> step.title],
       [line |-> "description", text |-> step.description] >>
    \o (IF Len(relevantMessages(msgs, step)) > 0
        THEN << [line |-> "body", text |-> relevantMessages(msgs, step)[1].content] >>
        ELSE <<>>)

RECURSIVE forEachCompleted(_, _, _)
forEachCompleted(msgs, completed, i) ==
    IF i > Len(completed) THEN <<>>
    ELSE StepLines(msgs, completed[i]) \o forEachCompleted(msgs, completed, i + 1)

generateStructuredOutput(msgs, steps, progress, percentage) ==
    << [line |-> "title"],
       [line |-> "date"],
       [line |-> "progress", value |-> percentage] >>
    \o forEachCompleted(msgs, completedSteps(steps, progress), 1)
    \o << [line |-> "rule"],
          [line |-> "generator"],
          [line |-> "count", value |-> Len(SelectSeq(msgs, LAMBDA m : m.type = "user"))] >>

----------------------------------------------------------------------------
(* Messages.  The timestamp (Date.now()) is left out: nothing reads it     *)
(* but the display.                                                        *)

UserMsg(text) == [type |-> "user", content |-> text]
AssistantMsg(text) == [type |-> "assistant", content |-> text]
SystemMsg(text) == [type |-> "system", content |-> text]
SummaryMsg(text) == [type |-> "assistant", content |-> text, isStructuredSummary |-> TRUE]

ResetNotice == <<"Session wurde zurueckgesetzt.">>
SaveNotice == <<"Session wurde als JSON-Datei gespeichert.">>
ReloadOkNotice == <<"Framework-Stufen wurden neu geladen.">>
ReloadFailedNotice == <<"Fehler beim Neuladen der Framework-Stufen.">>
SummaryFailedText == <<"Fehler bei der Erstellung der strukturierten Zusammenfassung.">>
SummaryHeader == <<"## Strukturierte Design Thinking Zusammenfassung">>

\* response.message || response.reply || 'Keine Antwort erhalten'
AssistantContent(body) ==
    IF Present(body, "message") THEN body.message
    ELSE IF Present(body, "reply") THEN body.reply
    ELSE <<"Keine Antwort erhalten">>

\* the catch branch of handleSendMessage: the text shown for an error
ErrorMessage(error) ==
    <<"Entschuldigung, es gab einen Fehler bei der Verbindung.">>
    \o (IF includes(error, <<"Failed to fetch">>)
        THEN <<" Bitte stellen Sie sicher, dass der Backend-Server laeuft.">>
        ELSE IF includes(error, <<"404">>)
        THEN <<" API-Endpoint nicht gefunden.">>
        ELSE <<>>)

\* `${response.message || response.reply}` after the summary header
SummaryContent(body) ==
    SummaryHeader
    \o (IF Present(body, "message") THEN body.message
        ELSE IF "reply" \in DOMAIN body THEN body.reply
        ELSE <<"undefined">>)

\* completedSteps.map(step => `- ${step.icon} ${step.title}: ${step.description}`).join('\n')
RECURSIVE CompletedLines(_, _, _)
CompletedLines(steps, progress, i) ==
    IF i > Len(steps) THEN <<>>
    ELSE (IF Truthy(progress, steps[i].key)
          THEN <<"- ">> \o steps[i].icon \o steps[i].title \o steps[i].description
          ELSE <<>>)
         \o CompletedLines(steps, progress, i + 1)

summaryPrompt(steps, progress) ==
    <<"Bitte erstellen Sie eine strukturierte Zusammenfassung">>
    \o CompletedLines(steps, progress, 1)
    \o <<"Erstellen Sie eine detaillierte Analyse">>

\* messages still owed by requests in flight
Owed == BagCardinality(pending) + (IF configRequest = "reload" THEN 1 ELSE 0)

\* the history has room for n more messages and for those owed
Room(n) == Len(messages) + Owed + n <= MaxMessages

----------------------------------------------------------------------------
(* App *)

NoArg == [content |-> <<>>, steps |-> <<>>, currentProgress |-> <<>>]

\* the first render and its effect: loadFrameworkStages() is in flight
InitApp ==
    /\ messages = <<>>
    /\ newMessage = <<>>
    /\ loading = FALSE
    /\ showExport = FALSE
    /\ frameworkLoading = TRUE
    /\ frameworkProgress = <<>>
    /\ frameworkSteps = <<>>
    /\ pending = EmptyBag
    /\ configRequest = "init"
    /\ localStorage = NoId
    /\ timers = EmptyBag

Init ==
    /\ InitApp
    /\ arg = NoArg
    /\ ret = <<>>

\* onChange of the textarea, which is disabled while loading
MessageChangeTo(texts) ==
    \E text \in texts \cup {<<>>} :
        /\ ~loading
        /\ text # newMessage
        /\ newMessage' = text
        /\ UNCHANGED <<messages, loading, showExport, frameworkLoading, frameworkProgress,
                       frameworkSteps, pending, configRequest, arg, ret, localStorage, timers>>

MessageChange == MessageChangeTo(InputTexts)

\* loadFrameworkStages after its await, and the rest of handleReloadFramework when
\* the reload button started it.  loadFrameworkStages catches every error, so the
\* promise handleReloadFramework awaits never rejects.
LoadSettle(outcome) ==
    LET r == chatAPI_loadFrameworkStages(outcome)
        rejects == FALSE
    IN  /\ configRequest # "none"
        /\ IF r.threw
           THEN /\ frameworkSteps' = <<>>
                /\ frameworkProgress' = <<>>
           ELSE /\ frameworkSteps' = r.value
                /\ frameworkProgress' = AllFalse(r.value, 1, <<>>)
        /\ frameworkLoading' = FALSE
        /\ messages' = IF configRequest = "reload"
                       THEN Append(messages, SystemMsg(IF rejects THEN ReloadFailedNotice
                                                       ELSE ReloadOkNotice))
                       ELSE messages
        /\ configRequest' = "none"
        /\ UNCHANGED <<newMessage, loading, showExport, pending, arg, ret, localStorage, timers>>

LoadFrameworkStagesSettle == \E outcome \in ConfigOutcomes : LoadSettle(outcome)

\* handleReloadFramework up to its await; the button is disabled while frameworkLoading
ReloadFramework ==
    /\ ~frameworkLoading
    /\ Room(1)
    /\ frameworkLoading' = TRUE
    /\ configRequest' = "reload"
    /\ UNCHANGED <<messages, newMessage, loading, showExport, frameworkProgress,
                   frameworkSteps, pending, arg, ret, localStorage, timers>>

\* what a handler made by the current render closes over
Render ==
    [newMessage |-> newMessage, loading |-> loading,
     frameworkSteps |-> frameworkSteps, frameworkProgress |-> frameworkProgress]

\* handleSendMessage testing the input for emptiness without trimming it
handleSendMessageUntrimmed(c) ==
    IF c.newMessage = <<>> \/ c.loading
    THEN UNCHANGED <<messages, newMessage, loading, showExport, frameworkLoading,
                     frameworkProgress, frameworkSteps, pending, configRequest, arg, ret,
                     localStorage>>
    ELSE /\ Room(2)
         /\ BagCardinality(pending) < MaxPending
         /\ newMessage' = <<>>
         /\ loading' = TRUE
         /\ messages' = Append(messages, UserMsg(trim(c.newMessage)))
         /\ \E now \in Times :
                /\ localStorage' = getSessionId(localStorage, now).stored
                /\ pending' = pending (+) SetToBag({
                       [kind |-> "send", message |-> trim(c.newMessage),
                        sessionId |-> getSessionId(localStorage, now).sessionId,
                        frameworkSteps |-> c.frameworkSteps,
                        frameworkProgress |-> c.frameworkProgress]})
         /\ UNCHANGED <<showExport, frameworkLoading, frameworkProgress, frameworkSteps,
                        configRequest, arg, ret>>

\* handleSendMessage up to its await, as made by the render whose values are c: the early
\* return, or the user message and the request
handleSendMessage(c) ==
    IF trim(c.newMessage) = <<>> \/ c.loading
    THEN UNCHANGED <<messages, newMessage, loading, showExport, frameworkLoading,
                     frameworkProgress, frameworkSteps, pending, configRequest, arg, ret,
                     localStorage>>
    ELSE /\ Room(2)
         /\ BagCardinality(pending) < MaxPending
         /\ newMessage' = <<>>
         /\ loading' = TRUE
         /\ messages' = Append(messages, UserMsg(trim(c.newMessage)))
         /\ \E now \in Times :
                /\ localStorage' = getSessionId(localStorage, now).stored
                /\ pending' = pending (+) SetToBag({
                       [kind |-> "send", message |-> trim(c.newMessage),
                        sessionId |-> getSessionId(localStorage, now).sessionId,
                        frameworkSteps |-> c.frameworkSteps,
                        frameworkProgress |-> c.frameworkProgress]})
         /\ UNCHANGED <<showExport, frameworkLoading, frameworkProgress, frameworkSteps,
                        configRequest, arg, ret>>

\* the send button and the Enter key call the handler of the current render, whatever
\* the input
SendMessage ==
    /\ handleSendMessage(Render)
    /\ UNCHANGED timers

\* what the Sidebar's example buttons show
ExampleQuestions == { <<"Kunden finden unsere Website zu kompliziert">> }

\* handleSendExampleMessage: the timer it sets holds the handler of the current render;
\* question records the click that set it
SendExampleMessage ==
    \E question \in ExampleQuestions :
        /\ BagCardinality(timers) < MaxTimers
        /\ newMessage' = question
        /\ timers' = timers (+) SetToBag({[handler |-> Render, question |-> question]})
        /\ UNCHANGED <<messages, loading, showExport, frameworkLoading, frameworkProgress,
                       frameworkSteps, pending, configRequest, arg, ret, localStorage>>

\* the timer runs the handler it holds
TimeoutOf(timer) ==
    /\ BagIn(timer, timers)
    /\ handleSendMessage(timer.handler)
    /\ timers' = timers (-) SetToBag({timer})

Timeout == \E timer \in BagToSet(timers) : TimeoutOf(timer)

\* handleSendMessage after its await, with the reply put in front of the history
SendSettleReplyFirst(req, outcome) ==
    LET r == chatAPI_sendMessage(outcome)
    IN  /\ BagIn(req, pending)
        /\ req.kind = "send"
        /\ IF r.threw
           THEN /\ messages' = Append(messages, AssistantMsg(ErrorMessage(r.error)))
                /\ UNCHANGED frameworkProgress
           ELSE /\ messages' = <<AssistantMsg(AssistantContent(r.value))>> \o messages
                /\ frameworkProgress' =
                       updateFrameworkProgress(AssistantContent(r.value),
                                               req.frameworkSteps, req.frameworkProgress)
        /\ loading' = FALSE
        /\ pending' = pending (-) SetToBag({req})
        /\ UNCHANGED <<newMessage, showExport, frameworkLoading, frameworkSteps,
                       configRequest, arg, ret, localStorage, timers>>

\* handleSendMessage after its await, without the finally: loading is reset only
\* at the end of the try branch
SendSettleNoFinally(req, outcome) ==
    LET r == chatAPI_sendMessage(outcome)
    IN  /\ BagIn(req, pending)
        /\ req.kind = "send"
        /\ IF r.threw
           THEN /\ messages' = Append(messages, AssistantMsg(ErrorMessage(r.error)))
                /\ UNCHANGED <<frameworkProgress, loading>>
           ELSE /\ messages' = Append(messages, AssistantMsg(AssistantContent(r.value)))
                /\ frameworkProgress' =
                       updateFrameworkProgress(AssistantContent(r.value),
                                               req.frameworkSteps, req.frameworkProgress)
                /\ loading' = FALSE
        /\ pending' = pending (-) SetToBag({req})
        /\ UNCHANGED <<newMessage, showExport, frameworkLoading, frameworkSteps,
                       configRequest, arg, ret, localStorage, timers>>

\* handleSendMessage after its await: the try branch, or the catch branch, then finally
SendSettle(req, outcome) ==
    LET r == chatAPI_sendMessage(outcome)
    IN  /\ BagIn(req, pending)
        /\ req.kind = "send"
        /\ IF r.threw
           THEN /\ messages' = Append(messages, AssistantMsg(ErrorMessage(r.error)))
                /\ UNCHANGED frameworkProgress
           ELSE /\ messages' = Append(messages, AssistantMsg(AssistantContent(r.value)))
                /\ frameworkProgress' =
                       updateFrameworkProgress(AssistantContent(r.value),
                                               req.frameworkSteps, req.frameworkProgress)
        /\ loading' = FALSE
        /\ pending' = pending (-) SetToBag({req})
        /\ UNCHANGED <<newMessage, showExport, frameworkLoading, frameworkSteps,
                       configRequest, arg, ret, localStorage, timers>>

SendMessageSettle ==
    \E req \in BagToSet(pending) : \E outcome \in ChatOutcomes : SendSettle(req, outcome)

\* handleGenerateStructuredSummary up to its await
GenerateStructuredSummary ==
    /\ ~(progressPercentage < 100)
    /\ Room(1)
    /\ BagCardinality(pending) < MaxPending
    /\ loading' = TRUE
    /\ \E now \in Times :
           /\ localStorage' = getSessionId(localStorage, now).stored
           /\ pending' = pending (+) SetToBag({
                  [kind |-> "summary",
                   message |-> summaryPrompt(frameworkSteps, frameworkProgress),
                   sessionId |-> getSessionId(localStorage, now).sessionId]})
    /\ UNCHANGED <<messages, newMessage, showExport, frameworkLoading, frameworkProgress,
                   frameworkSteps, configRequest, arg, ret, timers>>

\* handleGenerateStructuredSummary after its await
SummarySettle(req, outcome) ==
    LET r == chatAPI_sendMessage(outcome)
    IN  /\ BagIn(req, pending)
        /\ req.kind = "summary"
        /\ messages' = Append(messages, IF r.threw THEN AssistantMsg(SummaryFailedText)
                                        ELSE SummaryMsg(SummaryContent(r.value)))
        /\ loading' = FALSE
        /\ pending' = pending (-) SetToBag({req})
        /\ UNCHANGED <<newMessage, showExport, frameworkLoading, frameworkProgress,
                       frameworkSteps, configRequest, arg, ret, localStorage, timers>>

GenerateStructuredSummarySettle ==
    \E req \in BagToSet(pending) : \E outcome \in ChatOutcomes : SummarySettle(req, outcome)

\* handleExecuteCommand with /save keeping only the newest message before its notice
ExecuteCommandSaveTruncates(command) ==
    IF command = "/reset"
    THEN /\ 1 + Owed <= MaxMessages
         /\ messages' = <<SystemMsg(ResetNotice)>>
         /\ frameworkProgress' = AllFalse(frameworkSteps, 1, <<>>)
         /\ UNCHANGED <<newMessage, loading, showExport, frameworkLoading, frameworkSteps,
                        pending, configRequest, arg, ret, localStorage, timers>>
    ELSE IF command = "/save"
    THEN /\ Room(1)
         /\ messages' = Append(IF messages = <<>> THEN <<>>
                               ELSE <<messages[Len(messages)]>>,
                               SystemMsg(SaveNotice))
         /\ UNCHANGED <<newMessage, loading, showExport, frameworkLoading, frameworkProgress,
                        frameworkSteps, pending, configRequest, arg, ret, localStorage, timers>>
    ELSE /\ command = "/export"
         /\ ~showExport
         /\ showExport' = TRUE
         /\ UNCHANGED <<messages, newMessage, loading, frameworkLoading, frameworkProgress,
                        frameworkSteps, pending, configRequest, arg, ret, localStorage, timers>>

\* handleExecuteCommand
ExecuteCommand(command) ==
    IF command = "/reset"
    THEN /\ 1 + Owed <= MaxMessages
         /\ messages' = <<SystemMsg(ResetNotice)>>
         /\ frameworkProgress' = AllFalse(frameworkSteps, 1, <<>>)
         /\ UNCHANGED <<newMessage, loading, showExport, frameworkLoading, frameworkSteps,
                        pending, configRequest, arg, ret, localStorage, timers>>
    ELSE IF command = "/save"
    THEN /\ Room(1)
         /\ messages' = Append(messages, SystemMsg(SaveNotice))
         /\ UNCHANGED <<newMessage, loading, showExport, frameworkLoading, frameworkProgress,
                        frameworkSteps, pending, configRequest, arg, ret, localStorage, timers>>
    ELSE /\ command = "/export"
         /\ ~showExport
         /\ showExport' = TRUE
         /\ UNCHANGED <<messages, newMessage, loading, frameworkLoading, frameworkProgress,
                        frameworkSteps, pending, configRequest, arg, ret, localStorage, timers>>

\* the two commands the Sidebar's buttons pass
Reset == ExecuteCommand("/reset")
Save == ExecuteCommand("/save")

\* no component passes '/export': the handler's branch and the modal's onClose are
\* steps of the export modal alone (SpecExport), and no steps of the app
Export == ExecuteCommand("/export")

\* onClose of the export modal
CloseExport ==
    /\ showExport
    /\ showExport' = FALSE
    /\ UNCHANGED <<messages, newMessage, loading, frameworkLoading, frameworkProgress,
                   frameworkSteps, pending, configRequest, arg, ret, localStorage, timers>>

\* ExportModal: the document it is given to show
structuredOutput ==
    generateStructuredOutput(messages, frameworkSteps, frameworkProgress, progressPercentage)

Next ==
    \/ MessageChange
    \/ LoadFrameworkStagesSettle
    \/ ReloadFramework
    \/ SendMessage
    \/ SendMessageSettle
    \/ GenerateStructuredSummary
    \/ GenerateStructuredSummarySettle
    \/ Reset
    \/ Save

\* the app without the Sidebar's example buttons, which SpecExample adds to a
\* conversation
Spec == Init /\ [][Next]_vars

\* the app with every issued chat request settling at last: fetch resolves or rejects
SpecLive ==
    /\ Init /\ [][Next]_vars
    /\ WF_vars(SendMessageSettle)
    /\ WF_vars(GenerateStructuredSummarySettle)

----------------------------------------------------------------------------
(* The tracker alone: updateFrameworkProgress applied, and applied again   *)
(* to its own result, for every argument triple within the bounds.         *)

UpdateChars == {"p", "P", "q", "z"}
UpdateTexts == UNION {[1..n -> UpdateChars] : n \in 0..MaxTextLen}
UpdateKeys == {<<"a">>, <<"b">>}
UpdateMaps == UNION {[D -> BOOLEAN] : D \in SUBSET UpdateKeys}
UpdateStageLists ==
    StageLists
    \cup { <<>>,
           <<MapStage(RawB)>>,
           <<MapStage(RawA), MapStage(RawANoKeywords)>>,
           <<MapStage(RawAEmptyKeyword), MapStage(RawB)>> }

\* Scenario A of the specification
ProblemKey == <<"p", "r", "o", "b", "l", "e", "m">>
ScenarioA ==
    [content |-> <<"I", " ", "s", "e", "e", " ", "t", "h", "e", " ", "c", "o", "r", "e", " ",
                   "p", "r", "o", "b", "l", "e", "m", " ", "h", "e", "r", "e">>,
     steps |-> <<[key |-> ProblemKey, title |-> <<"Problem">>, description |-> <<"d">>,
                  icon |-> <<"pin">>,
                  keywords |-> <<ProblemKey, <<"i", "s", "s", "u", "e">> >>]>>,
     currentProgress |-> [k \in {ProblemKey} |-> FALSE]]

UpdateInputs ==
    {[content |-> t, steps |-> l, currentProgress |-> m] :
        t \in UpdateTexts, l \in UpdateStageLists, m \in UpdateMaps}
    \cup {ScenarioA}

InitUpdate ==
    /\ InitApp
    /\ arg \in UpdateInputs
    /\ ret = <<>>

\* the map the n-th application is given
Given(n) == IF n = 1 THEN arg.currentProgress ELSE ret[n - 1]

Apply ==
    /\ Len(ret) < MaxApply
    /\ ret' = Append(ret, updateFrameworkProgress(arg.content, arg.steps, Given(Len(ret) + 1)))
    /\ UNCHANGED <<appVars, arg>>

SpecUpdate == InitUpdate /\ [][Apply]_vars

----------------------------------------------------------------------------
(* Sequential turns: the stages are loaded, the user types and sends, and  *)
(* every request is answered before the next is sent.                      *)

SeqTexts == InputTexts \cup { <<"q">>, <<"p", " ", "q">> }

InitSeq ==
    /\ messages = <<>>
    /\ newMessage = <<>>
    /\ loading = FALSE
    /\ showExport = FALSE
    /\ frameworkLoading = FALSE
    /\ frameworkSteps \in StageLists
    /\ frameworkProgress = AllFalse(frameworkSteps, 1, <<>>)
    /\ pending = EmptyBag
    /\ configRequest = "none"
    /\ localStorage = NoId
    /\ timers = EmptyBag
    /\ arg = NoArg
    /\ ret = <<>>

SeqMessageChange == MessageChangeTo(SeqTexts)

SendMessageReply ==
    \E req \in BagToSet(pending) :
        \E outcome \in {o \in ChatOutcomes : ~chatAPI_sendMessage(o).threw} :
            SendSettle(req, outcome)

NextSeq ==
    \/ SeqMessageChange
    \/ SendMessage
    \/ SendMessageReply

SpecSeq == InitSeq /\ [][NextSeq]_vars

----------------------------------------------------------------------------
(* The example buttons: the stages are loaded, and the user types, sends,  *)
(* clicks example questions and resets, while replies and failures arrive  *)
(* and timers run in any order.                                            *)

NextExample ==
    \/ MessageChange
    \/ SendMessage
    \/ SendMessageSettle
    \/ SendExampleMessage
    \/ Timeout
    \/ Reset

SpecExample == InitSeq /\ [][NextExample]_vars

----------------------------------------------------------------------------
(* The export modal alone: the app holds a history, a stage list and a     *)
(* progress map, and handleExecuteCommand('/export') opens the modal,      *)
(* which generates the document from them; onClose closes it.              *)

\* a stage whose key occurs in the reset notice
RawN == [key |-> ResetNotice, title |-> <<"N">>, description |-> <<"dN">>,
         keywords |-> << <<"n">> >>]

ExportStageLists ==
    StageLists
    \cup { <<>>,
           <<MapStage(RawN), MapStage(RawB)>>,
           <<MapStage(RawA), MapStage(RawB), MapStage(RawN)>> }

\* the progress maps the app can hold with a stage list: one entry per stage key, or,
\* with no stage loaded, the map a late reply computed from an earlier stage list
ExportMaps(steps) ==
    [{steps[i].key : i \in 1..Len(steps)} -> BOOLEAN]
    \cup (IF steps = <<>> THEN UpdateMaps ELSE {})

ExportMessages ==
    { UserMsg(<<"a">>),
      AssistantMsg(<<"A", "q">>),
      AssistantMsg(<<"q", "a">>),
      AssistantMsg(<<"b">>),
      SystemMsg(ResetNotice) }

ExportHistories == UNION {[1..n -> ExportMessages] : n \in 0..MaxHistory}

InitExport ==
    /\ messages \in ExportHistories
    /\ newMessage = <<>>
    /\ loading = FALSE
    /\ showExport = FALSE
    /\ frameworkLoading = FALSE
    /\ frameworkSteps \in ExportStageLists
    /\ frameworkProgress \in ExportMaps(frameworkSteps)
    /\ pending = EmptyBag
    /\ configRequest = "none"
    /\ localStorage = NoId
    /\ timers = EmptyBag
    /\ arg = NoArg
    /\ ret = <<>>

NextExport ==
    \/ Export
    \/ CloseExport

SpecExport == InitExport /\ [][NextExport]_vars

----------------------------------------------------------------------------
(* Properties of the tracker, under SpecUpdate *)

\* a stage of arg.steps with a keyword that occurs in the text, letter case ignored
KeywordOccurs(stage) ==
    \E n \in 1..Len(stage.keywords) :
        includes(toLowerCase(arg.content), toLowerCase(stage.keywords[n]))

\* the entry of key is the same in both maps (present in both with one value, or in neither)
SameEntry(before, after, key) ==
    /\ (key \in DOMAIN before) = (key \in DOMAIN after)
    /\ key \in DOMAIN before => before[key] = after[key]

\* C1: progress is monotonic under update: every key that is true in the map an
\* application is given is still true in the map it returns.
ProgressMonotonic ==
    \A n \in 1..Len(ret) :
        \A k \in DOMAIN Given(n) : Given(n)[k] = TRUE => Truthy(ret[n], k)

\* C1 witness: an application was given a covered stage none of whose keywords occur.
ProgressMonotonicWitness ==
    /\ Len(ret) >= 1
    /\ \E i \in 1..Len(arg.steps) :
           /\ Truthy(arg.currentProgress, arg.steps[i].key)
           /\ arg.steps[i].keywords # <<>>
           /\ \A j \in 1..Len(arg.steps) :
                  arg.steps[j].key = arg.steps[i].key => ~KeywordOccurs(arg.steps[j])

\* C5 (as claimed): after an application, the entry of a stage with an occurring
\* keyword is true, and the entry of every other stage is as it was in the given map.
UpdateMarksExactlyMatchingStages ==
    \A n \in 1..Len(ret) :
        \A i \in 1..Len(arg.steps) :
            IF KeywordOccurs(arg.steps[i])
            THEN Truthy(ret[n], arg.steps[i].key)
            ELSE SameEntry(Given(n), ret[n], arg.steps[i].key)

\* C6: update is idempotent: every further application with the same text returns
\* the map the first application returned.
UpdateIdempotent ==
    \A n \in 2..Len(ret) : ret[n] = ret[1]

\* C6 witness: the update was applied twice and the first application marked a stage.
UpdateIdempotentWitness ==
    /\ Len(ret) >= 2
    /\ ret[1] # arg.currentProgress
    /\ Cardinality({k \in DOMAIN ret[1] : ret[1][k]}) >= 2

----------------------------------------------------------------------------
(* Properties of the app, under Spec *)

StageKeys == {frameworkSteps[i].key : i \in 1..Len(frameworkSteps)}

IsPrefix(short, long) ==
    /\ Len(short) <= Len(long)
    /\ \A j \in 1..Len(short) : long[j] = short[j]

\* C2 (as claimed): the progress map has exactly one entry per configured stage key.
ProgressKeysAreStageKeys ==
    DOMAIN frameworkProgress = StageKeys

\* C3 (as claimed): a reply loses no message and writes the update of the progress
\* map as it is when the reply arrives, not of a map another operation has replaced.
NoLostUpdate ==
    [][\A req \in BagToSet(pending) : \A outcome \in ChatOutcomes :
           (SendSettle(req, outcome) /\ ~chatAPI_sendMessage(outcome).threw)
           => /\ IsPrefix(messages, messages')
              /\ frameworkProgress' =
                     updateFrameworkProgress(AssistantContent(outcome.body),
                                             frameworkSteps, frameworkProgress)]_vars

\* C4 (as claimed): the percentage is in 0..100 and, with at least one stage
\* configured, it is 100 exactly when every stage's progress entry is true.
PercentageCompleteIffAllCovered ==
    /\ progressPercentage \in 0..100
    /\ Len(frameworkSteps) > 0 =>
           (progressPercentage = 100
            <=> \A i \in 1..Len(frameworkSteps) :
                    Truthy(frameworkProgress, frameworkSteps[i].key))

\* C7 (as claimed): while a send request is pending, the history holds the user
\* message of its turn.
PendingTurnHasUserMessage ==
    \A req \in BagToSet(pending) :
        req.kind = "send" =>
            \E i \in 1..Len(messages) : messages[i] = UserMsg(req.message)

ReplyTexts == {AssistantContent(b) : b \in ChatBodies}

ErrorTexts == {ErrorMessage(chatAPI_sendMessage(o).error) :
                  o \in {x \in ChatOutcomes : chatAPI_sendMessage(x).threw}}

\* C9 (as claimed): when a send request fails, the user message of its turn is
\* still in the history, exactly one failure message is appended after it, and
\* the progress map and the stage list are unchanged.
FailedSendKeepsConversation ==
    [][\A req \in BagToSet(pending) : \A outcome \in ChatOutcomes :
           (SendSettle(req, outcome) /\ chatAPI_sendMessage(outcome).threw)
           => /\ Len(messages') = Len(messages) + 1
              /\ IsPrefix(messages, messages')
              /\ \E i \in 1..Len(messages) : messages'[i] = UserMsg(req.message)
              /\ messages'[Len(messages')].type = "assistant"
              /\ messages'[Len(messages')].content \in ErrorTexts
              /\ frameworkProgress' = frameworkProgress
              /\ frameworkSteps' = frameworkSteps]_vars

\* C10 (as claimed): a reload that fails leaves the stage list and the progress map
\* as they were.
FailedReloadKeepsStages ==
    [][\A outcome \in ConfigOutcomes :
           (configRequest = "reload" /\ LoadSettle(outcome)
            /\ chatAPI_loadFrameworkStages(outcome).threw)
           => /\ frameworkSteps' = frameworkSteps
              /\ frameworkProgress' = frameworkProgress]_vars

\* C11: every step other than the explicit reset keeps the history as a prefix of
\* the new history: no message is removed, reordered or changed.
MessagesAppendOnly ==
    [][Reset \/ IsPrefix(messages, messages')]_vars

\* C11 witness: a turn, then a /save notice, with a reload notice appended after them.
MessagesAppendOnlyWitness ==
    /\ Len(messages) = 4
    /\ messages[1].type = "user"
    /\ messages[2].type = "assistant"
    /\ messages[3] = SystemMsg(SaveNotice)
    /\ messages[4] = SystemMsg(ReloadOkNotice)

\* C15 (as claimed): the active stage list never holds two stages with one key, nor
\* a stage with an empty key.
StageKeysUnique ==
    /\ \A i, j \in 1..Len(frameworkSteps) :
           frameworkSteps[i].key = frameworkSteps[j].key => i = j
    /\ \A i \in 1..Len(frameworkSteps) : frameworkSteps[i].key # <<>>

\* C16: a send whose input is empty or only white space changes neither the history,
\* the progress map, the input field nor the loading flag, and issues no request.
EmptyInputRejected ==
    [][/\ (SendMessage /\ trim(newMessage) = <<>>)
          => UNCHANGED <<messages, frameworkProgress, newMessage, loading, pending>>
       /\ \A timer \in BagToSet(timers) :
              (TimeoutOf(timer) /\ trim(timer.handler.newMessage) = <<>>)
              => UNCHANGED <<messages, frameworkProgress, newMessage, loading, pending>>]_vars

\* C16 witness: the input holds white space only, after a turn, and handleSendMessage
\* can be called (the textarea is enabled).
EmptyInputWitness ==
    /\ newMessage = <<" ">>
    /\ ~loading
    /\ Len(messages) >= 2
    /\ pending = EmptyBag

\* every configured stage is covered
AllCovered ==
    /\ Len(frameworkSteps) > 0
    /\ \A i \in 1..Len(frameworkSteps) : Truthy(frameworkProgress, frameworkSteps[i].key)

\* with every stage covered, a send with a text is still accepted: it appends its
\* user message and issues its request, and the reply to it can be appended
SendAcceptedWhenComplete ==
    /\ (AllCovered /\ trim(newMessage) # <<>> /\ ~loading /\ Room(2)
            /\ BagCardinality(pending) < MaxPending)
           => ENABLED (SendMessage /\ messages' = Append(messages, UserMsg(trim(newMessage)))
                                   /\ BagCardinality(pending') = BagCardinality(pending) + 1)
    /\ (AllCovered /\ \E req \in BagToSet(pending) : req.kind = "send")
           => ENABLED (SendMessageSettle /\ Len(messages') = Len(messages) + 1
                                         /\ messages'[Len(messages')].content \in ReplyTexts)

\* C17 (as claimed): a complete session still accepts a send, and in every state,
\* complete or not, the export can be opened.
CompleteNotTerminal ==
    /\ SendAcceptedWhenComplete
    /\ ~showExport => ENABLED (Next /\ showExport')

\* C18: the session id is made by the first request and is stable from then on: a
\* stored id is never replaced, and every request in flight, sent before or after
\* a /reset, carries the stored id.
SessionIdStable ==
    /\ [](\A req \in BagToSet(pending) : localStorage # NoId /\ req.sessionId = localStorage)
    /\ [][localStorage # NoId => localStorage' = localStorage]_vars

\* C18 witness: a request is in flight after a /reset that an earlier request, whose
\* reply came after the reset, preceded.
SessionIdStableWitness ==
    /\ Len(messages) = 3
    /\ messages[1] = SystemMsg(ResetNotice)
    /\ messages[2].type = "assistant"
    /\ messages[3].type = "user"
    /\ \E req \in BagToSet(pending) : req.kind = "send" /\ req.sessionId = localStorage

\* C19 (as claimed): at most one chat request is in flight, and loading is true
\* while a send or summary request awaits its reply.
LoadingTracksRequests ==
    /\ BagCardinality(pending) <= 1
    /\ pending # EmptyBag => loading

\* the request was issued before the last /reset: the history starts with the reset
\* notice and no longer holds the user message of the request
IssuedBeforeReset(req) ==
    /\ messages # <<>>
    /\ messages[1] = SystemMsg(ResetNotice)
    /\ ~\E i \in 1..Len(messages) : messages[i] = UserMsg(req.message)

\* C20 (as claimed): a reply to a request issued before a /reset covers only stages
\* with a keyword in the reply's own text: every stage that is covered after the
\* reply and was not before it has such a keyword.
ResetNotUndoneByLateReply ==
    [][\A req \in BagToSet(pending) : \A outcome \in ChatOutcomes :
           (SendSettle(req, outcome) /\ ~chatAPI_sendMessage(outcome).threw
            /\ IssuedBeforeReset(req))
           => \A i \in 1..Len(frameworkSteps) :
                  (Truthy(frameworkProgress', frameworkSteps[i].key)
                   /\ ~Truthy(frameworkProgress, frameworkSteps[i].key))
                  => \E j \in 1..Len(frameworkSteps) :
                         /\ frameworkSteps[j].key = frameworkSteps[i].key
                         /\ found(toLowerCase(AssistantContent(outcome.body)),
                                  frameworkSteps[j])]_vars

\* C22 (as claimed): a reload appends the success notice when the stage list was
\* loaded and the failure notice when loading it failed.
ReloadReportsOutcome ==
    [][\A outcome \in ConfigOutcomes :
           (configRequest = "reload" /\ LoadSettle(outcome))
           => messages' = Append(messages,
                                 SystemMsg(IF chatAPI_loadFrameworkStages(outcome).threw
                                           THEN ReloadFailedNotice
                                           ELSE ReloadOkNotice))]_vars

\* a summary that settles appends one message: flagged isStructuredSummary when the
\* request succeeded, an unflagged error text when it failed, and the progress map
\* is left as it is
SummarySettlesAsClaimed ==
    \A req \in BagToSet(pending) : \A outcome \in ChatOutcomes :
        SummarySettle(req, outcome)
        => /\ Len(messages') = Len(messages) + 1
           /\ IsPrefix(messages, messages')
           /\ ("isStructuredSummary" \in DOMAIN messages'[Len(messages')])
                  = ~chatAPI_sendMessage(outcome).threw
           /\ chatAPI_sendMessage(outcome).threw
                  => messages'[Len(messages')] = AssistantMsg(SummaryFailedText)
           /\ frameworkProgress' = frameworkProgress

\* C23 (as claimed): a summary request is issued only when every configured stage
\* is covered, a flagged message is appended only when the request succeeds, and a
\* failed request appends one unflagged error message and leaves the progress map.
SummaryOnlyWhenComplete ==
    [][/\ GenerateStructuredSummary => AllCovered
       /\ SummarySettlesAsClaimed]_vars

\* C21 (as claimed): the timer of an example click made while no request was pending
\* sends the clicked question: it appends the question as the user message and
\* posts it, whatever the input field held before the click.
ExampleClickSendsQuestion ==
    [][\A timer \in BagToSet(timers) :
           (TimeoutOf(timer) /\ ~timer.handler.loading /\ pending = EmptyBag)
           => /\ messages' = Append(messages, UserMsg(timer.question))
              /\ BagCardinality(pending') = 1
              /\ \A req \in BagToSet(pending') :
                     req.kind = "send" /\ req.message = timer.question]_vars

\* C24: loading is never true while no chat request is in flight, and, every
\* request settling at last, a state with loading = false is always reached again.
InputReenabled ==
    /\ [](pending = EmptyBag => ~loading)
    /\ loading ~> ~loading

\* C24 witness: the input is enabled again after a request that failed, with a full
\* history and nothing in flight.
InputReenabledWitness ==
    /\ ~loading
    /\ pending = EmptyBag
    /\ Len(messages) = MaxMessages
    /\ messages[Len(messages)].content \in ErrorTexts

----------------------------------------------------------------------------
(* Properties of the export document *)

\* positions of the configured stages whose progress entry is true
CoveredIndices ==
    {i \in 1..Len(frameworkSteps) : Truthy(frameworkProgress, frameworkSteps[i].key)}

\* the k-th covered stage in configured order
NthCovered(k) ==
    frameworkSteps[CHOOSE i \in CoveredIndices :
                       Cardinality({j \in CoveredIndices : j < i}) = k - 1]

\* the section headers of the document, in document order
Headers == SelectSeq(structuredOutput, LAMBDA l : l.line = "header")

\* one header per covered stage and none for another stage, in configured order
SectionsFollowProgress ==
    /\ Len(Headers) = Cardinality(CoveredIndices)
    /\ \A k \in 1..Len(Headers) :
           Headers[k] = [line |-> "header", icon |-> NthCovered(k).icon,
                         title |-> NthCovered(k).title]

\* C12 (as claimed): the document has a section for every stage whose entry is
\* true and for no other stage, in configured order, and with no covered stage it
\* is a document with the 0% marker and no section.
ExportSectionsMatchProgress ==
    /\ SectionsFollowProgress
    /\ CoveredIndices = {} =>
           /\ structuredOutput[1] = [line |-> "title"]
           /\ structuredOutput[3] = [line |-> "progress", value |-> 0]
           /\ Headers = <<>>

\* positions of the section headers in the document
HeaderPositions == {p \in 1..Len(structuredOutput) : structuredOutput[p].line = "header"}

\* the position of the k-th section header
NthHeader(k) ==
    CHOOSE p \in HeaderPositions : Cardinality({q \in HeaderPositions : q < p}) = k - 1

\* the assistant messages whose text contains the key of step, as written
MentionsExact(step) ==
    {i \in 1..Len(messages) :
        messages[i].type = "assistant" /\ includes(messages[i].content, step.key)}

\* the assistant messages whose text contains the key of step, letter case ignored
MentionsAnyCase(step) ==
    {i \in 1..Len(messages) :
        /\ messages[i].type = "assistant"
        /\ includes(toLowerCase(messages[i].content), toLowerCase(step.key))}

\* the k-th section is header, description and the content of the first message of
\* mentions, or header and description alone when there is none
SectionHasBody(k, mentions) ==
    LET p == NthHeader(k)
    IN  /\ structuredOutput[p + 1] = [line |-> "description", text |-> NthCovered(k).description]
        /\ IF mentions = {}
           THEN structuredOutput[p + 2].line # "body"
           ELSE structuredOutput[p + 2] =
                    [line |-> "body",
                     text |-> messages[CHOOSE i \in mentions : \A j \in mentions : i <= j].content]

\* C13 (as claimed): the body of each section is the content of the first assistant
\* message whose text contains the stage key as a substring, and is empty when no
\* assistant message contains it.
ExportBodyIsFirstMention ==
    showExport =>
        /\ SectionsFollowProgress
        /\ \A k \in 1..Len(Headers) : SectionHasBody(k, MentionsExact(NthCovered(k)))

\* C13 (amended): the body of each section is the content of the first assistant
\* message whose text contains the stage key with letter case ignored, and is empty
\* when no assistant message contains it.
ExportBodyIsFirstMentionAnyCase ==
    showExport =>
        /\ SectionsFollowProgress
        /\ \A k \in 1..Len(Headers) : SectionHasBody(k, MentionsAnyCase(NthCovered(k)))

\* C13 witness: the modal shows two sections, one with a body taken from an assistant
\* message that follows a user message with the key, one without a body.
ExportBodyWitness ==
    /\ showExport
    /\ Len(Headers) = 2
    /\ Len(messages) = 3
    /\ messages[1] = UserMsg(<<"a">>)
    /\ messages[1].content = NthCovered(1).key
    /\ MentionsAnyCase(NthCovered(1)) = {3}
    /\ MentionsAnyCase(NthCovered(2)) = {}

\* the true entries of the progress map
TrueEntries == Cardinality({k \in DOMAIN frameworkProgress : frameworkProgress[k] = TRUE})

\* C14: the percentage is the integer nearest to 100 * count(true entries) /
\* count(stages), a half rounded up, and it is 0 when no stage is configured,
\* whatever the progress map holds.
PercentageIsRoundedRatio ==
    LET n == Len(frameworkSteps)
        p == progressPercentage
    IN  IF n = 0 THEN p = 0
        ELSE /\ 2 * n * p - n <= 200 * TrueEntries
             /\ 200 * TrueEntries < 2 * n * p + n

\* C14 witness: two of three stages are covered, which is 67 percent, in the document too.
PercentageRoundedWitness ==
    /\ showExport
    /\ Len(frameworkSteps) = 3
    /\ TrueEntries = 2
    /\ structuredOutput[3] = [line |-> "progress", value |-> 67]

----------------------------------------------------------------------------
(* Properties of sequential turns, under SpecSeq *)

\* the history alternates user and assistant messages, and a request is pending
\* exactly while the last user message has no reply
TurnsAlternate ==
    /\ \A i \in 1..Len(messages) :
           messages[i].type = IF i % 2 = 1 THEN "user" ELSE "assistant"
    /\ BagCardinality(pending) = Len(messages) % 2

\* a send appends the trimmed input as a user message and posts that text; a reply
\* appends one assistant message, a reply text, right after the user message of its turn
TurnStep ==
    /\ BagCardinality(pending') > BagCardinality(pending) =>
           /\ messages' = Append(messages, UserMsg(trim(newMessage)))
           /\ \E req \in BagToSet(pending') :
                  req.kind = "send" /\ req.message = trim(newMessage)
    /\ BagCardinality(pending') < BagCardinality(pending) =>
           /\ Len(messages') = Len(messages) + 1
           /\ IsPrefix(messages, messages')
           /\ messages'[Len(messages')].type = "assistant"
           /\ messages'[Len(messages')].content \in ReplyTexts
           /\ \E req \in BagToSet(pending) : messages[Len(messages)] = UserMsg(req.message)
    /\ BagCardinality(pending') = BagCardinality(pending) => messages' = messages

\* C8: two sequential sends append four messages in the order user, assistant, user,
\* assistant, each user message with the submitted text, each assistant message the
\* reply to it.
SequentialTurnsInOrder ==
    []TurnsAlternate /\ [][TurnStep]_vars

\* C8 witness: two turns with different texts are complete.
SequentialTurnsWitness ==
    /\ Len(messages) = 4
    /\ pending = EmptyBag
    /\ messages[1].content # messages[3].content
    /\ messages[2].content # messages[4].content

====
